---- MODULE Spec2Model ----
(***************************************************************************)
(* Model of .github/workflows/extract_delta_layers.py: the delta-layer     *)
(* identification, the archive layer mapping and the run() pipeline of     *)
(* DockerLayerExtractor.                                                   *)
(*                                                                         *)
(* File names and blob paths are sequences of one-character strings, so    *)
(* that str.replace and the {:02d} format are computed, not assumed.       *)
(***************************************************************************)
EXTENDS Integers, Sequences, FiniteSets, TLC

VARIABLES
    pc,                \* position of the process in __init__ / run()
    exit_code,         \* process exit status; -1 while the process runs
    run_outcome,       \* which branch of run() ended the process
    base_layers,       \* identify_delta_layers: local base_layers
    built_layers,      \* identify_delta_layers: local built_layers
    built_history,     \* identify_delta_layers: local built_history
    delta_layers,      \* run(): delta_layers
    delta_history,     \* run(): delta_history
    save_result,       \* how save_image_as_tar ended
    tar_exists,        \* the saved archive file is on disk
    temp_dir_exists,   \* the TemporaryDirectory of extract_layers_from_tar is on disk
    archive,           \* what the unpacked archive in the temporary directory holds
    delta_layer_files, \* extract_layers_from_tar: local delta_layer_files
    extracted_files,   \* extract_layers_from_tar: extracted_layers / run(): extracted_files
    extract_outcome,   \* how extract_layers_from_tar left its with-block
    report             \* extraction_report.json: <<>> until written, then <<record>>

vars == <<pc, exit_code, run_outcome, base_layers, built_layers, built_history,
          delta_layers, delta_history, save_result, tar_exists, temp_dir_exists,
          archive, delta_layer_files, extracted_files, extract_outcome, report>>

-----------------------------------------------------------------------------
(* Bounds of the model *)

\* pipeline specification: longest layer / history list the runtime answers
PipeMaxLayers == 2
\* pipeline specification: longest Layers / diff_ids list of the archive
PipeMaxArchive == 1
\* delta specification: longest base layer list
MaxBase == 2
\* delta specification: longest built layer list and history
MaxBuilt == 3
\* extraction specification: longest delta / Layers / diff_ids list
MaxArchive == 2
\* naming specification: largest number of delta layers
MaxFiles == 100

-----------------------------------------------------------------------------
(* Values *)

LayerIds == {"sha:a", "sha:x", "sha:y"}

\* a history entry; only CreatedBy is modelled, named after the layer it made
HistoryEntries == {[CreatedBy |-> l] : l \in LayerIds}

h(l) == [CreatedBy |-> l]

Blob1 == <<"b","l","o","b","s","/","1",".","t","a","r">>
Blob2 == <<"b","l","o","b","s","/","2",".","t","a","r">>
Blobs == {Blob1, Blob2}

SeqsUpTo(S, n) == UNION {[1..k -> S] : k \in 0..n}

Range(s) == {s[i] : i \in 1..Len(s)}

Min(a, b) == IF a < b THEN a ELSE b
Max(a, b) == IF a > b THEN a ELSE b

-----------------------------------------------------------------------------
(* Characters and strings *)

DigitChars == <<"0","1","2","3","4","5","6","7","8","9">>

\* ASCII codes of the characters that occur in file names
Ord(c) ==
    CASE c = "." -> 46
      [] c = "/" -> 47
      [] c \in Range(DigitChars) -> 47 + (CHOOSE k \in 1..10 : DigitChars[k] = c)
      [] c = "_" -> 95
      [] c = "a" -> 97
      [] c = "b" -> 98
      [] c = "l" -> 108
      [] c = "o" -> 111
      [] c = "r" -> 114
      [] c = "s" -> 115
      [] c = "t" -> 116

RECURSIVE Digits(_)
\* decimal digits of n >= 0, most significant first
Digits(n) == IF n < 10 THEN <<DigitChars[n + 1]>>
             ELSE Append(Digits(n \div 10), DigitChars[(n % 10) + 1])

\* Python's str order: by code point, a proper prefix sorts first
LexLess(s, t) ==
    \E k \in 1..(Min(Len(s), Len(t)) + 1) :
        /\ \A j \in 1..(k - 1) : s[j] = t[j]
        /\ \/ k = Len(s) + 1 /\ k <= Len(t)
           \/ k <= Len(s) /\ k <= Len(t) /\ Ord(s[k]) < Ord(t[k])

-----------------------------------------------------------------------------
(* identify_delta_layers: the pure part *)

\* what the runtime does on a lookup: it answers one of the lists of S, or
\* images.get, inspect_image or history raises
Answers(S) ==
    {[found |-> TRUE, value |-> v] : v \in S}
        \cup {[found |-> FALSE, value |-> <<>>]}

\* get_image_layers: RootFS.Layers of the image, [] on any failure
get_image_layers(answer) == IF answer.found THEN answer.value ELSE <<>>

\* get_image_history: the history of the image, [] on any failure
get_image_history(answer) == IF answer.found THEN answer.value ELSE <<>>

\* a plausible slip: assume the base is a prefix of the built image and cut it off
DeltaLayersStripPrefix(base, built) == SubSeq(built, Len(base) + 1, Len(built))

\* delta_layers = [layer for layer in built_layers if layer not in base_layers_set]
DeltaLayers(base, built) ==
    LET base_layers_set == Range(base)
        NotInBase(layer) == layer \notin base_layers_set
    IN  SelectSeq(built, NotInBase)

\* a plausible slip: built_history[-len(delta_layers):], the oldest entries
DeltaHistoryTail(history, delta) ==
    SubSeq(history, Max(1, Len(history) - Len(delta) + 1), Len(history))

\* delta_history = built_history[:len(delta_layers)]
DeltaHistory(history, delta) == SubSeq(history, 1, Min(Len(delta), Len(history)))

-----------------------------------------------------------------------------
(* extract_layers_from_tar: the pure part *)

\* str.replace(old, new) for one-character old and new
Replace(s, old, new) == [i \in 1..Len(s) |-> IF s[i] = old THEN new ELSE s[i]]

\* f"{n:02d}": the decimal digits of n, zero-padded on the left to at least 2
Format02d(n) ==
    LET d == Digits(n)
    IN  IF Len(d) < 2 THEN [i \in 1..(2 - Len(d)) |-> "0"] \o d ELSE d

\* layer_name = layer_file.replace('/', '_')
layer_name(layer_file) == Replace(layer_file, "/", "_")

\* a plausible slip: os.path.basename(layer_file), the part after the last '/'
BaseNameOnly(i, layer_file) ==
    LET cut == CHOOSE k \in 0..Len(layer_file) :
                   /\ k > 0 => layer_file[k] = "/"
                   /\ \A j \in (k + 1)..Len(layer_file) : layer_file[j] # "/"
    IN  Format02d(i + 1) \o <<"_">> \o SubSeq(layer_file, cut + 1, Len(layer_file))

\* indexed_layer_name = f"{i+1:02d}_{layer_name}", i counted from 0
indexed_layer_name(i, layer_file) ==
    Format02d(i + 1) \o <<"_">> \o layer_name(layer_file)

RECURSIVE ScanConfigNoBreak(_, _, _, _)
\* a plausible slip: the inner loop without its break, every match is taken
ScanConfigNoBreak(delta_layer, config_layers, image_layers, i) ==
    IF i > Len(config_layers) THEN <<>>
    ELSE (IF config_layers[i] = delta_layer /\ i <= Len(image_layers)
             THEN <<image_layers[i]>> ELSE <<>>)
         \o ScanConfigNoBreak(delta_layer, config_layers, image_layers, i + 1)

RECURSIVE ScanConfig(_, _, _, _)
\* the inner loop: for i, config_layer in enumerate(config_layers), positions
\* counted from 1 here; the break sits inside "if i < len(image_layers)"
ScanConfig(delta_layer, config_layers, image_layers, i) ==
    IF i > Len(config_layers) THEN <<>>
    ELSE IF config_layers[i] = delta_layer /\ i <= Len(image_layers)
         THEN <<image_layers[i]>>
         ELSE ScanConfig(delta_layer, config_layers, image_layers, i + 1)

RECURSIVE MapDeltaRange(_, _, _, _, _)
\* the outer loop "for delta_layer in delta_layers" over delta[lo..hi]; the
\* range is halved so that the evaluation stays shallow on long lists
MapDeltaRange(delta, config_layers, image_layers, lo, hi) ==
    IF lo > hi THEN <<>>
    ELSE IF lo = hi
         THEN ScanConfig(delta[lo], config_layers, image_layers, 1)
         ELSE LET mid == (lo + hi) \div 2
              IN  MapDeltaRange(delta, config_layers, image_layers, lo, mid)
                  \o MapDeltaRange(delta, config_layers, image_layers,
                                   mid + 1, hi)

\* delta_layer_files after the mapping loops
MapDeltaLayers(delta, config_layers, image_layers) ==
    MapDeltaRange(delta, config_layers, image_layers, 1, Len(delta))

RECURSIVE CopyRange(_, _, _, _)
\* the copy loop "for i, layer_file in enumerate(delta_layer_files)" over
\* files[lo..hi] when no copy raises: the names of the blobs that exist, each
\* with the index of its place in delta_layer_files (the code's i is k - 1)
CopyRange(files, present, lo, hi) ==
    IF lo > hi THEN <<>>
    ELSE IF lo = hi
         THEN IF files[lo] \in present
              THEN <<indexed_layer_name(lo - 1, files[lo])>>
              ELSE <<>>
         ELSE LET mid == (lo + hi) \div 2
              IN  CopyRange(files, present, lo, mid)
                  \o CopyRange(files, present, mid + 1, hi)

\* the copy loop: fail_at is the number of the shutil.copy2 call that raises
\* (0, or more than the calls made: none does); the names appended before it
\* stay in extracted_layers
CopyLoop(files, present, fail_at) ==
    LET copied == CopyRange(files, present, 1, Len(files))
    IN  IF fail_at \in 1..Len(copied)
        THEN [extracted |-> SubSeq(copied, 1, fail_at - 1), raised |-> TRUE]
        ELSE [extracted |-> copied, raised |-> FALSE]

-----------------------------------------------------------------------------
(* The unpacked archive *)

\* status "ok": tar unpacked, manifest.json and the config it names were read.
\* Layers is manifest['Layers'], diff_ids is config['rootfs']['diff_ids'],
\* present the blob paths that exist under the temporary directory,
\* copy_fail_at the number of the shutil.copy2 call that raises (0: none).
NoArchive ==
    [status |-> "none", diff_ids |-> <<>>, Layers |-> <<>>, present |-> {},
     copy_fail_at |-> 0]

\* what can be wrong with the archive before the mapping starts
ArchiveErrors ==
    {"unpack_failed", "manifest_missing", "manifest_malformed",
     "config_unnamed", "config_missing", "config_malformed"}

BadArchives == {[NoArchive EXCEPT !.status = e] : e \in ArchiveErrors}

OkArchives(n) ==
    UNION {{[status |-> "ok", diff_ids |-> c, Layers |-> l, present |-> p,
             copy_fail_at |-> f] :
                c \in SeqsUpTo(LayerIds, n), p \in SUBSET Range(l),
                f \in 0..Len(l)} :
           l \in SeqsUpTo(Blobs, n)}

\* the body of the with-block of extract_layers_from_tar on archive ar:
\* files is delta_layer_files, extracted is extracted_layers as it stands when
\* the block is left, outcome how it is left
ExtractResult(ar, delta) ==
    CASE ar.status = "unpack_failed" ->
            [files |-> <<>>, extracted |-> <<>>, outcome |-> "unpack_failed"]
      [] ar.status = "manifest_missing" ->
            [files |-> <<>>, extracted |-> <<>>, outcome |-> "no_manifest"]
      [] ar.status = "manifest_malformed" ->
            [files |-> <<>>, extracted |-> <<>>, outcome |-> "manifest_malformed"]
      [] ar.status \in {"config_unnamed", "config_missing"} ->
            [files |-> <<>>, extracted |-> <<>>, outcome |-> "completed"]
      [] ar.status = "config_malformed" ->
            [files |-> <<>>, extracted |-> <<>>, outcome |-> "config_malformed"]
      [] ar.status = "ok" ->
            LET files == MapDeltaLayers(delta, ar.diff_ids, ar.Layers)
                c == CopyLoop(files, ar.present, ar.copy_fail_at)
            IN  [files |-> files, extracted |-> c.extracted,
                 outcome |-> IF c.raised THEN "copy_failed" ELSE "completed"]

\* the outcomes that leave the with-block by an exception
RaisedOutcomes ==
    {"unpack_failed", "manifest_malformed", "config_malformed", "copy_failed"}

\* a plausible slip: the count of the files that were extracted
ReportRecordExtractedCount(dl, dh, ef) ==
    [delta_layers_count |-> Len(ef), delta_layers |-> dl,
     delta_history |-> dh, extracted_files |-> ef]

\* the report dictionary of generate_report (the fields that vary in a run)
ReportRecord(dl, dh, ef) ==
    [delta_layers_count |-> Len(dl), delta_layers |-> dl,
     delta_history |-> dh, extracted_files |-> ef]

-----------------------------------------------------------------------------
(* The process *)

Init ==
    /\ pc = "start"
    /\ exit_code = -1
    /\ run_outcome = "running"
    /\ base_layers = <<>>
    /\ built_layers = <<>>
    /\ built_history = <<>>
    /\ delta_layers = <<>>
    /\ delta_history = <<>>
    /\ save_result = "none"
    /\ tar_exists = FALSE
    /\ temp_dir_exists = FALSE
    /\ archive = NoArchive
    /\ delta_layer_files = <<>>
    /\ extracted_files = <<>>
    /\ extract_outcome = "none"
    /\ report = <<>>

\* sys.exit(code), or run() returning to main (code 0)
Exit(code, outcome) ==
    /\ pc' = "exited"
    /\ exit_code' = code
    /\ run_outcome' = outcome

\* __init__: docker.from_env() answers or the process exits with 1
Connect ==
    /\ pc = "start"
    /\ \E connected \in BOOLEAN :
          IF connected
          THEN pc' = "pull" /\ UNCHANGED <<exit_code, run_outcome>>
          ELSE Exit(1, "connect_failed")
    /\ UNCHANGED <<base_layers, built_layers, built_history, delta_layers,
                   delta_history, save_result, tar_exists, temp_dir_exists,
                   archive, delta_layer_files, extracted_files,
                   extract_outcome, report>>

\* pull_base_image: a failed pull is logged and the run goes on
pull_base_image ==
    /\ pc = "pull"
    /\ \E pulled \in BOOLEAN : pc' = "identify"
    /\ UNCHANGED <<exit_code, run_outcome, base_layers, built_layers,
                   built_history, delta_layers, delta_history, save_result,
                   tar_exists, temp_dir_exists, archive, delta_layer_files,
                   extracted_files, extract_outcome, report>>

\* identify_delta_layers: each of the three lookups gets one of the answers
\* the runtime can give, then the delta is computed
identify_delta_layers(BaseAnswers, BuiltAnswers, HistoryAnswers) ==
    /\ pc = "identify"
    /\ \E b \in BaseAnswers, u \in BuiltAnswers, hs \in HistoryAnswers :
          /\ base_layers' = get_image_layers(b)
          /\ built_layers' = get_image_layers(u)
          /\ built_history' = get_image_history(hs)
    /\ delta_layers' = DeltaLayers(base_layers', built_layers')
    /\ delta_history' = DeltaHistory(built_history', delta_layers')
    /\ pc' = "identified"
    /\ UNCHANGED <<exit_code, run_outcome, save_result, tar_exists,
                   temp_dir_exists, archive, delta_layer_files,
                   extracted_files, extract_outcome, report>>

\* run(): "if not delta_layers: return"; the locals of identify_delta_layers
\* are gone once it has returned
CheckDelta ==
    /\ pc = "identified"
    /\ IF delta_layers = <<>>
       THEN Exit(0, "no_delta")
       ELSE pc' = "save" /\ UNCHANGED <<exit_code, run_outcome>>
    /\ base_layers' = <<>>
    /\ built_layers' = <<>>
    /\ built_history' = <<>>
    /\ UNCHANGED <<delta_layers, delta_history, save_result, tar_exists,
                   temp_dir_exists, archive, delta_layer_files,
                   extracted_files, extract_outcome, report>>

\* save_image_as_tar and run()'s "if not tar_path: return": the image lookup
\* fails, open() fails, the stream fails after open() made the file, or all is
\* written
save_image_as_tar ==
    /\ pc = "save"
    /\ \E res \in {"ok", "get_failed", "open_failed", "stream_failed"} :
          /\ save_result' = res
          /\ tar_exists' = (tar_exists \/ res \in {"ok", "stream_failed"})
          /\ IF res = "ok"
             THEN pc' = "extract" /\ UNCHANGED <<exit_code, run_outcome>>
             ELSE Exit(0, "save_failed")
    /\ UNCHANGED <<base_layers, built_layers, built_history, delta_layers,
                   delta_history, temp_dir_exists, archive, delta_layer_files,
                   extracted_files, extract_outcome, report>>

\* extract_layers_from_tar: "with tempfile.TemporaryDirectory() as temp_dir"
ExtractEnter ==
    /\ pc = "extract"
    /\ temp_dir_exists' = TRUE
    /\ extracted_files' = <<>>
    /\ pc' = "in_temp_dir"
    /\ UNCHANGED <<exit_code, run_outcome, base_layers, built_layers,
                   built_history, delta_layers, delta_history, save_result,
                   tar_exists, archive, delta_layer_files, extract_outcome,
                   report>>

\* extract_layers_from_tar: the body of the with-block, on one of Archives
ExtractBody(Archives) ==
    /\ pc = "in_temp_dir"
    /\ \E ar \in Archives :
          LET r == ExtractResult(ar, delta_layers)
          IN  /\ archive' = ar
              /\ delta_layer_files' = r.files
              /\ extracted_files' = r.extracted
              /\ extract_outcome' = r.outcome
    /\ pc' = "leaving_temp_dir"
    /\ UNCHANGED <<exit_code, run_outcome, base_layers, built_layers,
                   built_history, delta_layers, delta_history, save_result,
                   tar_exists, temp_dir_exists, report>>

\* a plausible slip: the directory is removed at the end of the block only,
\* not on the early return nor on an exception
ExtractLeaveLeaky ==
    /\ pc = "leaving_temp_dir"
    /\ temp_dir_exists' = (extract_outcome # "completed")
    /\ archive' = NoArchive
    /\ delta_layer_files' = <<>>
    /\ pc' = "report"
    /\ UNCHANGED <<exit_code, run_outcome, base_layers, built_layers,
                   built_history, delta_layers, delta_history, save_result,
                   tar_exists, extracted_files, extract_outcome, report>>

\* a plausible slip: the except handler logs and raises again, which run()
\* turns into sys.exit(1)
ExtractLeaveReraise ==
    /\ pc = "leaving_temp_dir"
    /\ temp_dir_exists' = FALSE
    /\ archive' = NoArchive
    /\ delta_layer_files' = <<>>
    /\ IF extract_outcome \in RaisedOutcomes
       THEN Exit(1, "extract_failed")
       ELSE pc' = "report" /\ UNCHANGED <<exit_code, run_outcome>>
    /\ UNCHANGED <<base_layers, built_layers, built_history, delta_layers,
                   delta_history, save_result, tar_exists, extracted_files,
                   extract_outcome, report>>

\* extract_layers_from_tar: the with-block is left (end of block, return [] or
\* exception), the directory and what it held are removed, the exception is
\* logged and extracted_layers is returned to run()
ExtractLeave ==
    /\ pc = "leaving_temp_dir"
    /\ temp_dir_exists' = FALSE
    /\ archive' = NoArchive
    /\ delta_layer_files' = <<>>
    /\ pc' = "report"
    /\ UNCHANGED <<exit_code, run_outcome, base_layers, built_layers,
                   built_history, delta_layers, delta_history, save_result,
                   tar_exists, extracted_files, extract_outcome, report>>

\* generate_report: json.dump raises, or the report is written and the summary
\* (human_summary only) raises, or all is written; an exception reaches run()'s
\* handler, which exits with 1
generate_report ==
    /\ pc = "report"
    /\ \E human_summary \in BOOLEAN,
          res \in {"ok", "json_failed", "summary_failed"} :
          /\ res = "summary_failed" => human_summary
          /\ report' = IF res = "json_failed" THEN report
                       ELSE <<ReportRecord(delta_layers, delta_history,
                                           extracted_files)>>
          /\ IF res = "ok"
             THEN pc' = "cleanup" /\ UNCHANGED <<exit_code, run_outcome>>
             ELSE Exit(1, "report_failed")
    /\ UNCHANGED <<base_layers, built_layers, built_history, delta_layers,
                   delta_history, save_result, tar_exists, temp_dir_exists,
                   archive, delta_layer_files, extracted_files,
                   extract_outcome>>

\* a plausible slip: the run ends without removing the archive file
CleanupTarKeepsArchive ==
    /\ pc = "cleanup"
    /\ Exit(0, "completed")
    /\ UNCHANGED <<base_layers, built_layers, built_history, delta_layers,
                   delta_history, save_result, tar_exists, temp_dir_exists,
                   archive, delta_layer_files, extracted_files,
                   extract_outcome, report>>

\* run(): os.remove(tar_path), then run() returns
CleanupTar ==
    /\ pc = "cleanup"
    /\ tar_exists' = FALSE
    /\ Exit(0, "completed")
    /\ UNCHANGED <<base_layers, built_layers, built_history, delta_layers,
                   delta_history, save_result, temp_dir_exists, archive,
                   delta_layer_files, extracted_files, extract_outcome, report>>

-----------------------------------------------------------------------------
(* Specifications *)

\* the whole run, on short lists
PipeLayerAnswers == Answers(SeqsUpTo(LayerIds, PipeMaxLayers))
PipeHistoryAnswers == Answers(SeqsUpTo(HistoryEntries, PipeMaxLayers))
PipeArchives == OkArchives(PipeMaxArchive) \cup BadArchives

Next ==
    \/ Connect
    \/ pull_base_image
    \/ identify_delta_layers(PipeLayerAnswers, PipeLayerAnswers,
                             PipeHistoryAnswers)
    \/ CheckDelta
    \/ save_image_as_tar
    \/ ExtractEnter
    \/ ExtractBody(PipeArchives)
    \/ ExtractLeave
    \/ generate_report
    \/ CleanupTar

Spec == Init /\ [][Next]_vars

\* identify_delta_layers alone, on every base, built and history list
InitDelta ==
    /\ pc = "identify"
    /\ exit_code = -1
    /\ run_outcome = "running"
    /\ base_layers = <<>>
    /\ built_layers = <<>>
    /\ built_history = <<>>
    /\ delta_layers = <<>>
    /\ delta_history = <<>>
    /\ save_result = "none"
    /\ tar_exists = FALSE
    /\ temp_dir_exists = FALSE
    /\ archive = NoArchive
    /\ delta_layer_files = <<>>
    /\ extracted_files = <<>>
    /\ extract_outcome = "none"
    /\ report = <<>>

\* one longer run of the runtime: a base of two layers, a built image that
\* adds two, and its history, newest first
ExampleBase == <<"sha:a", "sha:b">>
ExampleBuilt == <<"sha:a", "sha:b", "sha:c", "sha:d">>
ExampleHistory == <<h("sha:d"), h("sha:c"), h("sha:b"), h("sha:a")>>

DeltaBaseAnswers == Answers(SeqsUpTo(LayerIds, MaxBase) \cup {ExampleBase})
DeltaBuiltAnswers == Answers(SeqsUpTo(LayerIds, MaxBuilt) \cup {ExampleBuilt})
DeltaHistoryAnswers ==
    Answers(SeqsUpTo(HistoryEntries, MaxBuilt) \cup {ExampleHistory})

NextDelta ==
    identify_delta_layers(DeltaBaseAnswers, DeltaBuiltAnswers,
                          DeltaHistoryAnswers)

SpecDelta == InitDelta /\ [][NextDelta]_vars

\* the with-block of extract_layers_from_tar alone, on every delta list and
\* every archive
InitInTempDir(Deltas) ==
    /\ pc = "in_temp_dir"
    /\ exit_code = -1
    /\ run_outcome = "running"
    /\ base_layers = <<>>
    /\ built_layers = <<>>
    /\ built_history = <<>>
    /\ delta_layers \in Deltas
    /\ delta_history = <<>>
    /\ save_result = "ok"
    /\ tar_exists = TRUE
    /\ temp_dir_exists = TRUE
    /\ archive = NoArchive
    /\ delta_layer_files = <<>>
    /\ extracted_files = <<>>
    /\ extract_outcome = "none"
    /\ report = <<>>

ExtractDeltas == SeqsUpTo(LayerIds, MaxArchive) \ {<<>>}
ExtractArchives == OkArchives(MaxArchive) \cup BadArchives

InitExtract == InitInTempDir(ExtractDeltas)

NextExtract == ExtractBody(ExtractArchives)

SpecExtract == InitExtract /\ [][NextExtract]_vars

\* the with-block on archives of 1..MaxFiles layers that are all delta layers,
\* all matched and all present
NumberedLayerId(k) == "sha:" \o ToString(k)

NumberedBlob(k) ==
    <<"b","l","o","b","s","/">> \o Digits(k) \o <<".","t","a","r">>

NamingDeltas == {[k \in 1..n |-> NumberedLayerId(k)] : n \in 1..MaxFiles}

InitNaming == InitInTempDir(NamingDeltas)

MatchedArchive(delta) ==
    [status |-> "ok", diff_ids |-> delta,
     Layers |-> [k \in 1..Len(delta) |-> NumberedBlob(k)],
     present |-> {NumberedBlob(k) : k \in 1..Len(delta)},
     copy_fail_at |-> 0]

NextNaming == ExtractBody({MatchedArchive(delta_layers)})

SpecNaming == InitNaming /\ [][NextNaming]_vars

-----------------------------------------------------------------------------
(* Properties *)

\* the n-th smallest element of the set of positions K
NthOf(K, n) == CHOOSE i \in K : Cardinality({k \in K : k <= i}) = n

\* how often x occurs in the sequence s
Count(s, x) == Cardinality({i \in 1..Len(s) : s[i] = x})

\* the first position of d in the sequence C (d occurs in C)
FirstPos(d, C) ==
    CHOOSE i \in 1..Len(C) : C[i] = d /\ \A j \in 1..(i - 1) : C[j] # d

\* C1: the delta layer list is the order-preserving filter of the built layers
\* that drops exactly the elements occurring in the base layers: every kept
\* element is absent from the base, every built element absent from the base
\* is kept once per occurrence, in the built order; it is empty when every
\* built element occurs in the base and equals the built list when the base is
\* empty.
C1_DeltaIsOrderPreservingFilter ==
    pc = "identified" =>
        LET B == base_layers
            U == built_layers
            D == delta_layers
            K == {i \in 1..Len(U) : \A j \in 1..Len(B) : B[j] # U[i]}
        IN  /\ Len(D) = Cardinality(K)
            /\ \A n \in 1..Len(D) : D[n] = U[NthOf(K, n)]
            /\ \A n \in 1..Len(D) : \A j \in 1..Len(B) : B[j] # D[n]
            /\ \A x \in Range(U) \ Range(B) : Count(D, x) = Count(U, x)
            /\ (Range(U) \subseteq Range(B)) => D = <<>>
            /\ B = <<>> => D = U

\* C1 witness: a built list with a repeated delta layer around a base layer
C1_Witness ==
    /\ pc = "identified"
    /\ base_layers = <<"sha:a">>
    /\ built_layers = <<"sha:x", "sha:a", "sha:x">>
    /\ delta_layers = <<"sha:x", "sha:x">>

\* C2: the delta history is the first len(delta_layers) entries of the built
\* history in its order (all of it when it is shorter), chosen by position
\* only; base [a,b], built [a,b,c,d], history [h(d),h(c),h(b),h(a)] gives
\* delta layers [c,d] and delta history [h(d),h(c)].
C2_DeltaHistoryIsLeadingPrefix ==
    pc = "identified" =>
        /\ Len(delta_history) =
               (IF Len(built_history) < Len(delta_layers)
                THEN Len(built_history) ELSE Len(delta_layers))
        /\ \A i \in 1..Len(delta_history) : delta_history[i] = built_history[i]
        /\ (/\ base_layers = ExampleBase
            /\ built_layers = ExampleBuilt
            /\ built_history = ExampleHistory)
           => /\ delta_layers = <<"sha:c", "sha:d">>
              /\ delta_history = <<h("sha:d"), h("sha:c")>>

\* C2 witness: the example run has been identified
C2_Witness ==
    /\ pc = "identified"
    /\ base_layers = ExampleBase
    /\ built_layers = ExampleBuilt
    /\ built_history = ExampleHistory
    /\ delta_history = <<h("sha:d"), h("sha:c")>>

\* the source blobs of the delta positions K of an unpacked archive, in order
BlobsOfMatched(K) ==
    /\ Len(delta_layer_files) = Cardinality(K)
    /\ \A n \in 1..Cardinality(K) :
          delta_layer_files[n] =
              archive.Layers[FirstPos(delta_layers[NthOf(K, n)],
                                      archive.diff_ids)]

\* C3 as stated: the blobs selected for copying are, in delta order, the entry
\* Layers[i] at the first position i with diff_ids[i] = d, for each delta
\* identifier d that occurs in diff_ids; an identifier that does not occur
\* gives no file and does not fail or stop the mapping, and at most len(delta)
\* files are extracted.
C3_SelectedBlobsForEveryOccurring ==
    (pc = "leaving_temp_dir" /\ archive.status = "ok") =>
        /\ BlobsOfMatched({j \in 1..Len(delta_layers) :
                               delta_layers[j] \in Range(archive.diff_ids)})
        /\ Len(extracted_files) <= Len(delta_layers)
        /\ extract_outcome \in {"completed", "copy_failed"}

\* C3 amended: the same, for each delta identifier whose first position in
\* diff_ids is a position of Layers.
C3_SelectedBlobsWithinLayers ==
    (pc = "leaving_temp_dir" /\ archive.status = "ok") =>
        /\ BlobsOfMatched({j \in 1..Len(delta_layers) :
                               /\ delta_layers[j] \in Range(archive.diff_ids)
                               /\ FirstPos(delta_layers[j], archive.diff_ids)
                                      <= Len(archive.Layers)})
        /\ Len(extracted_files) <= Len(delta_layers)
        /\ extract_outcome \in {"completed", "copy_failed"}

\* C3 witness: an identifier absent from diff_ids is followed by one that
\* occurs twice in it, and the blob of its first position was copied
C3_Witness ==
    /\ pc = "leaving_temp_dir"
    /\ archive.status = "ok"
    /\ delta_layers = <<"sha:a", "sha:y">>
    /\ archive.diff_ids = <<"sha:y", "sha:y">>
    /\ archive.Layers = <<Blob2, Blob1>>
    /\ delta_layer_files = <<Blob2>>
    /\ Len(extracted_files) = 1

\* k written in decimal, zero-padded to exactly w characters
ZeroPadded(k, w) ==
    LET d == Digits(k) IN [i \in 1..(w - Len(d)) |-> "0"] \o d

\* C4: when all N > 0 delta identifiers are matched and copied, the k-th file
\* of the delta order has the prefix k, zero-padded to max(2, digits(N))
\* characters and followed by "_", and the file names sort lexicographically
\* in delta order.
C4_PrefixesFixedWidthAndSorted ==
    (/\ pc = "leaving_temp_dir"
     /\ extract_outcome = "completed"
     /\ delta_layers # <<>>
     /\ Len(extracted_files) = Len(delta_layers)) =>
        LET N == Len(delta_layers)
            w == IF Len(Digits(N)) > 2 THEN Len(Digits(N)) ELSE 2
        IN  \A k \in 1..N :
               /\ Len(extracted_files[k]) > w
               /\ SubSeq(extracted_files[k], 1, w) = ZeroPadded(k, w)
               /\ extracted_files[k][w + 1] = "_"
               /\ \A j \in 1..(k - 1) :
                     LexLess(extracted_files[j], extracted_files[k])

\* the value of a sequence of decimal digit characters, -1 if it is not one
DecimalValue(s) ==
    IF s = <<>> \/ \E i \in 1..Len(s) : s[i] \notin Range(DigitChars) THEN -1
    ELSE LET v[i \in 0..Len(s)] ==
                 IF i = 0 THEN 0 ELSE 10 * v[i - 1] + (Ord(s[i]) - 48)
         IN  v[Len(s)]

\* the archive, delta list and outcome of the example of C5
C5_Example ==
    /\ pc = "leaving_temp_dir"
    /\ archive.status = "ok"
    /\ archive.Layers = <<Blob1, Blob2>>
    /\ archive.diff_ids = <<"sha:x", "sha:y">>
    /\ Blob2 \in archive.present
    /\ archive.copy_fail_at = 0
    /\ delta_layers = <<"sha:y">>

\* C5 as stated: in the example exactly one file is extracted, named 01_2.tar.
C5_ExampleNamedByBaseName ==
    C5_Example =>
        extracted_files = << <<"0","1","_","2",".","t","a","r">> >>

\* C5 amended: in the example exactly one file is extracted, the copy of
\* blobs/2.tar, named 01_blobs_2.tar; in general every extracted name is the
\* order prefix of a selected blob that exists, "_", and the blob's manifest
\* path with every "/" replaced by "_".
C5_ExampleNamedByFlattenedPath ==
    /\ C5_Example =>
          /\ delta_layer_files = <<Blob2>>
          /\ extracted_files =
                 << <<"0","1","_","b","l","o","b","s","_","2",".","t","a","r">> >>
    /\ pc = "leaving_temp_dir" =>
          \A n \in 1..Len(extracted_files) :
             \E k \in 1..Len(delta_layer_files) :
                LET e == extracted_files[n]
                    f == delta_layer_files[k]
                    p == Len(e) - Len(f)
                IN  /\ f \in archive.present
                    /\ p >= 3
                    /\ e[p] = "_"
                    /\ DecimalValue(SubSeq(e, 1, p - 1)) = k
                    /\ \A j \in 1..Len(f) :
                          e[p + j] = (IF f[j] = "/" THEN "_" ELSE f[j])

\* C5 witness: the example has run and its one file is named 01_blobs_2.tar
C5_Witness ==
    /\ C5_Example
    /\ Len(extracted_files) = 1
    /\ Len(extracted_files[1]) = 14

\* C6: the process exits with 1 exactly when the runtime cannot be reached at
\* start-up or saving the built image fails, and with 0 on every other run.
C6_ExitCodeOneIffConnectOrSaveFailed ==
    pc = "exited" =>
        /\ exit_code \in {0, 1}
        /\ exit_code = 1 <=> run_outcome \in {"connect_failed", "save_failed"}

\* C7: a written report has the count len(delta_layers) and the computed delta
\* layer list, whatever number of files was extracted.
C7_ReportCountsDeltaLayers ==
    report # <<>> =>
        /\ report[1].delta_layers_count = Len(delta_layers)
        /\ report[1].delta_layers = delta_layers
        /\ report[1].extracted_files = extracted_files

\* C7 witness: a report written after fewer files than delta layers were
\* extracted, with at least one
C7_Witness ==
    /\ report # <<>>
    /\ extracted_files # <<>>
    /\ Len(extracted_files) < Len(delta_layers)

\* C8: the temporary directory exists only inside the with-block of
\* extract_layers_from_tar: it is gone once the function has returned, on
\* every way out, in every later step and at process exit.
C8_TempDirGoneAfterExtract ==
    /\ temp_dir_exists => pc \in {"in_temp_dir", "leaving_temp_dir"}
    /\ pc \in {"report", "cleanup", "exited"} => ~temp_dir_exists

\* C8 witness: the block was left by an exception and the run is over
C8_Witness ==
    /\ pc = "exited"
    /\ extract_outcome = "manifest_malformed"
    /\ ~temp_dir_exists

\* C9: the archive file is removed on the success path only: it is on disk
\* from the save to the end of the report step, a run that completes has
\* written the report and then removed it, and a run that ends after the file
\* was created without completing leaves it on disk.
C9_ArchiveRemovedOnSuccessOnly ==
    /\ pc \in {"extract", "in_temp_dir", "leaving_temp_dir", "report", "cleanup"}
          => tar_exists
    /\ pc = "cleanup" => report # <<>>
    /\ (pc = "exited" /\ run_outcome = "completed")
          => (~tar_exists /\ report # <<>>)
    /\ (pc = "exited" /\ save_result = "stream_failed") => tar_exists
    /\ (pc = "exited" /\ run_outcome = "report_failed") => tar_exists
    /\ (pc = "exited" /\ save_result \in {"ok", "stream_failed"} /\ ~tar_exists)
          => run_outcome = "completed"

\* C9 witness: the report write raised and the archive file is still on disk
C9_Witness ==
    /\ pc = "exited"
    /\ run_outcome = "report_failed"
    /\ exit_code = 1
    /\ tar_exists

\* C10: on every archive error the with-block is left with no extracted file,
\* and the next step of the run is the report step, reached with zero
\* extracted files, the non-empty delta list and no exit.
C10_ArchiveErrorGivesEmptyAndContinues ==
    [][(pc = "leaving_temp_dir" /\ archive.status \in ArchiveErrors) =>
          /\ extracted_files = <<>>
          /\ delta_layers # <<>>
          /\ pc' = "report"
          /\ exit_code' = -1
          /\ extracted_files' = <<>>
          /\ delta_layers' = delta_layers
          /\ tar_exists']_vars

\* C10 witness: after an unpack failure the report was written with no
\* extracted file and the run is at the archive cleanup
C10_Witness ==
    /\ pc = "cleanup"
    /\ extract_outcome = "unpack_failed"
    /\ report # <<>>
    /\ report[1].extracted_files = <<>>
    /\ report[1].delta_layers_count > 0

====
